---- MODULE Spec2Model ----
(***************************************************************************)
(* QuadriCAD (quadri_cad.py): the load collection kept in the Streamlit    *)
(* session state, the handlers of the "Carichi" tab that change it, the    *)
(* three tabs that compute from it, and the engineering functions they     *)
(* call.                                                                   *)
(*                                                                         *)
(* Numbers.  The program computes in floating point; the model computes    *)
(* the same expressions in exact rational arithmetic.  A rational is a     *)
(* record [n, d] in lowest terms with d > 0.  Powers are in kW, cos phi    *)
(* is the rational the slider shows, hours are hours.                      *)
(*                                                                         *)
(* Names.  A name is a sequence of one-character strings, so that          *)
(* str.lower and str.strip are computed and not assumed.                   *)
(***************************************************************************)
EXTENDS Integers, Sequences, FiniteSets, TLC

VARIABLES
    carichi,    \* st.session_state.carichi: the ordered list of Carico
    ultimo,     \* history: the last button handler of tab "Carichi" and its outcome
    prima,      \* history: the list before the last "Aggiungi Carico" request, kept while
                \* only the removal of the load it added has followed; <<>> otherwise
    vista,      \* what the tab rendered last has computed (or the exception it raised)
    ingresso,   \* the arguments of a direct call of one of the engineering functions
    uscita      \* what that call has returned (or the exception it raised)

vars == <<carichi, ultimo, prima, vista, ingresso, uscita>>

----------------------------------------------------------------------------
(* Bounds of the model *)

\* the handlers that append are not taken beyond this length of the list
MaxCarichi == 5

\* direct calls of calcola_potenza_dimensionamento: lists of up to this many loads
MaxCarichiProva == 2

\* direct transformer look-ups: design powers 0, 0.5, 1, ... up to this many half kW
MaxMezziKw == 5020

\* direct calls of verifica_termica_semplificata: dissipated powers 0, 1, ... W up to this
MaxDissipata == 420

\* direct calls of the enclosure choice: 0, 1, ... loads up to this
MaxCarichiCarp == 13

\* direct calls of the enclosure choice: main currents 0, 0.5, 1, ... A up to this many halves
MaxMezziAmpere == 1610

\* direct calls of seleziona_interruttore: catalogues of up to this many rows
MaxRighe == 3

----------------------------------------------------------------------------
(* Rational arithmetic *)

Abs(x) == IF x < 0 THEN -x ELSE x

RECURSIVE Gcd(_, _)
Gcd(a, b) == IF b = 0 THEN a ELSE Gcd(b, a % b)

\* the rational n/d (d # 0) in lowest terms, with a positive denominator
Fraz(n, d) ==
    LET g == Gcd(Abs(n), Abs(d))
        s == IF d < 0 THEN -1 ELSE 1
    IN  [n |-> (s * n) \div g, d |-> (s * d) \div g]

Intero(k) == [n |-> k, d |-> 1]

FSomma(a, b) ==
    LET g == Gcd(a.d, b.d)
    IN  Fraz(a.n * (b.d \div g) + b.n * (a.d \div g), (a.d \div g) * b.d)

FDiff(a, b) == FSomma(a, [n |-> -b.n, d |-> b.d])

\* the product, reduced crosswise before multiplying
FProd(a, b) ==
    LET g1 == Gcd(Abs(a.n), b.d)
        g2 == Gcd(Abs(b.n), a.d)
    IN  IF a.n = 0 \/ b.n = 0 THEN Intero(0)
        ELSE [n |-> (a.n \div g1) * (b.n \div g2), d |-> (a.d \div g2) * (b.d \div g1)]

\* a / b for b # 0
FQuoz(a, b) ==
    FProd(a, IF b.n < 0 THEN [n |-> -b.d, d |-> -b.n] ELSE [n |-> b.d, d |-> b.n])

FMinUg(a, b) == a.n * b.d <= b.n * a.d      \* a <= b
FMin(a, b)   == a.n * b.d <  b.n * a.d      \* a <  b
FMinimo(a, b) == IF FMin(b, a) THEN b ELSE a

----------------------------------------------------------------------------
(* Names: str.lower and str.strip *)

Maiuscole == <<"A","B","C","D","E","F","G","H","I","J","K","L","M",
               "N","O","P","Q","R","S","T","U","V","W","X","Y","Z">>
Minuscole == <<"a","b","c","d","e","f","g","h","i","j","k","l","m",
               "n","o","p","q","r","s","t","u","v","w","x","y","z">>

LowerChar(ch) ==
    IF \E i \in 1..Len(Maiuscole) : Maiuscole[i] = ch
    THEN Minuscole[CHOOSE i \in 1..Len(Maiuscole) : Maiuscole[i] = ch]
    ELSE ch

\* str.lower()
Lower(s) == [i \in 1..Len(s) |-> LowerChar(s[i])]

Spazio(ch) == ch = " "

\* str.strip(): the string without its leading and trailing white space
Strip(s) ==
    LET pieni == {i \in 1..Len(s) : ~Spazio(s[i])}
    IN  IF pieni = {} THEN <<>>
        ELSE SubSeq(s, CHOOSE i \in pieni : \A j \in pieni : i <= j,
                       CHOOSE i \in pieni : \A j \in pieni : j <= i)

----------------------------------------------------------------------------
(* class Carico *)

\* Carico with the positional arguments potenza_kw and ore_giorno exchanged
CaricoOreScambiate(nome, potenza_kw, cos_phi, regime, priorita, ore_giorno) ==
    [nome |-> nome, potenza_kw |-> ore_giorno, cos_phi |-> cos_phi,
     regime |-> regime, priorita |-> priorita, ore_giorno |-> potenza_kw]

Carico(nome, potenza_kw, cos_phi, regime, priorita, ore_giorno) ==
    [nome |-> nome, potenza_kw |-> potenza_kw, cos_phi |-> cos_phi,
     regime |-> regime, priorita |-> priorita, ore_giorno |-> ore_giorno]

----------------------------------------------------------------------------
(* The form of tab "Carichi": the values its widgets can hold *)

\* st.text_input "Denominazione": any text, returned as typed
NomiModulo ==
    { <<>>, <<" ">>, <<"a">>, <<"A">>, <<" ","a">> }

\* st.number_input "Potenza (kW)", min_value 0.5, max_value 1000.0
PotenzeModulo == {1000}

\* st.selectbox "Regime" left at its first option
RegimiModulo == {"continuo"}

\* st.number_input "Ore/giorno" left at the value the form shows for the regime
OreIniziali(regime) == IF regime = "continuo" THEN 24 ELSE 8

\* st.slider "Cos phi" left at its initial value 0.85
CosPhiIniziale == Fraz(85, 100)

\* st.selectbox "Priorita'" left at its first option
PrioritaIniziale == "critico"

(* The two templates *)

TemplateOfficinaMeccanica == <<
    Carico(<<"C","e","n","t","r","o"," ","C","N","C"," ","1">>,
           45, Fraz(85, 100), "continuo", "normale", 16),
    Carico(<<"C","e","n","t","r","o"," ","C","N","C"," ","2">>,
           35, Fraz(85, 100), "continuo", "normale", 16),
    Carico(<<"T","o","r","n","i","o">>,
           15, Fraz(8, 10), "intermittente", "normale", 8),
    Carico(<<"C","o","m","p","r","e","s","s","o","r","e">>,
           22, Fraz(85, 100), "continuo", "critico", 24),
    Carico(<<"I","l","l","u","m","i","n","a","z","i","o","n","e">>,
           15, Fraz(9, 10), "continuo", "normale", 12)
>>

TemplateCaseificio == <<
    Carico(<<"P","a","s","t","o","r","i","z","z","a","t","o","r","e">>,
           120, Fraz(9, 10), "continuo", "critico", 24),
    Carico(<<"G","r","u","p","p","o"," ","F","r","i","g","o">>,
           85, Fraz(85, 100), "continuo", "critico", 24),
    Carico(<<"C","e","n","t","r","i","f","u","g","a">>,
           75, Fraz(8, 10), "intermittente", "normale", 6),
    Carico(<<"C","o","n","f","e","z","i","o","n","a","m","e","n","t","o">>,
           35, Fraz(85, 100), "continuo", "normale", 16)
>>

----------------------------------------------------------------------------
(* The breaker catalogue: load_interruttori_db, a DataFrame with a RangeIndex *)

load_interruttori_db == <<
    [serie |-> "T1", modello |-> "T1S160", in_nom |-> 63, icu |-> 15, prezzo |-> 450],
    [serie |-> "T1", modello |-> "T1S160", in_nom |-> 80, icu |-> 15, prezzo |-> 520],
    [serie |-> "T2", modello |-> "T2S160", in_nom |-> 100, icu |-> 25, prezzo |-> 680],
    [serie |-> "T2", modello |-> "T2S160", in_nom |-> 125, icu |-> 25, prezzo |-> 750],
    [serie |-> "T3", modello |-> "T3S250", in_nom |-> 160, icu |-> 35, prezzo |-> 950],
    [serie |-> "T3", modello |-> "T3S250", in_nom |-> 200, icu |-> 35, prezzo |-> 1100],
    [serie |-> "T4", modello |-> "T4S250", in_nom |-> 250, icu |-> 50, prezzo |-> 1450],
    [serie |-> "T5", modello |-> "T5H400", in_nom |-> 320, icu |-> 65, prezzo |-> 2200],
    [serie |-> "T5", modello |-> "T5H400", in_nom |-> 400, icu |-> 65, prezzo |-> 2800],
    [serie |-> "E1", modello |-> "E1N800", in_nom |-> 630, icu |-> 42, prezzo |-> 4500],
    [serie |-> "E1", modello |-> "E1N800", in_nom |-> 800, icu |-> 42, prezzo |-> 5200],
    [serie |-> "E2", modello |-> "E2N1250", in_nom |-> 1000, icu |-> 65, prezzo |-> 7800],
    [serie |-> "E3", modello |-> "E3N1600", in_nom |-> 1250, icu |-> 65, prezzo |-> 12000],
    [serie |-> "E3", modello |-> "E3N3200", in_nom |-> 1600, icu |-> 65, prezzo |-> 15000]
>>

----------------------------------------------------------------------------
(* calcola_potenza_dimensionamento *)

RECURSIVE FSommaSeq(_)
\* sum(...) of a sequence of rationals
FSommaSeq(q) == IF q = <<>> THEN Intero(0) ELSE FSomma(q[1], FSommaSeq(Tail(q)))

Continuo(c) == c.regime = "continuo"
Intermittente(c) == c.regime = "intermittente"
PotenzaKw(c) == Intero(c.potenza_kw)
\* c.potenza_kw * (c.ore_giorno/24)
PotenzaEquivalente(c) == FProd(Intero(c.potenza_kw), Fraz(c.ore_giorno, 24))

\* FattoreContemporaneita without the cap min(0.9, ...)
FattoreSenzaTetto(pot_continua, pot_intermittente, pot_installata) ==
    FQuoz(FSomma(pot_continua, FProd(pot_intermittente, Fraz(7, 10))), pot_installata)

\* FattoreContemporaneita with the weight 0.7 on the continuous power too
FattoreTuttoPesato(pot_continua, pot_intermittente, pot_installata) ==
    FMinimo(Fraz(9, 10),
            FQuoz(FSomma(FProd(pot_continua, Fraz(7, 10)),
                         FProd(pot_intermittente, Fraz(7, 10))),
                  pot_installata))

\* min(0.9, (pot_continua + pot_intermittente*0.7) / pot_installata)
FattoreContemporaneita(pot_continua, pot_intermittente, pot_installata) ==
    FMinimo(Fraz(9, 10),
            FQuoz(FSomma(pot_continua, FProd(pot_intermittente, Fraz(7, 10))),
                  pot_installata))

\* pot_installata * fattore_contemporaneita * 1.15
PotenzaDimensionamento(pot_installata, fattore) ==
    FProd(FProd(pot_installata, fattore), Fraz(115, 100))

\* the function: its three results, or the exception the division raises
calcola_potenza_dimensionamento(cs) ==
    LET carichi_continui == SelectSeq(cs, Continuo)
        carichi_intermittenti == SelectSeq(cs, Intermittente)
        pot_installata == FSommaSeq([i \in 1..Len(cs) |-> PotenzaKw(cs[i])])
        pot_continua ==
            FSommaSeq([i \in 1..Len(carichi_continui) |-> PotenzaKw(carichi_continui[i])])
        pot_intermittente ==
            FSommaSeq([i \in 1..Len(carichi_intermittenti) |->
                           PotenzaEquivalente(carichi_intermittenti[i])])
    IN  IF pot_installata.n = 0
        THEN [eccezione |-> "ZeroDivisionError"]
        ELSE LET fattore == FattoreContemporaneita(pot_continua, pot_intermittente,
                                                   pot_installata)
             IN  [eccezione |-> "",
                  pot_inst |-> pot_installata,
                  fatt_cont |-> fattore,
                  pot_dim |-> PotenzaDimensionamento(pot_installata, fattore)]

----------------------------------------------------------------------------
(* The transformer: min([t for t in trasf_std if t >= pot_dim]) *)

trasf_std == <<160, 250, 315, 400, 500, 630, 800, 1000, 1250, 1600, 2000, 2500>>

\* TrasfAdatto with t > pot_dim
TrasfMaggiore(t, pot_dim) == FMin(pot_dim, Intero(t))

\* t >= pot_dim
TrasfAdatto(t, pot_dim) == FMinUg(pot_dim, Intero(t))

\* the value chosen, or the exception min() raises on an empty list
ScegliTrasformatore(pot_dim) ==
    LET adatti == {trasf_std[i] : i \in {j \in 1..Len(trasf_std) :
                                           TrasfAdatto(trasf_std[j], pot_dim)}}
    IN  IF adatti = {}
        THEN [eccezione |-> "ValueError"]
        ELSE [eccezione |-> "",
              kva |-> CHOOSE t \in adatti : \A u \in adatti : t <= u]

----------------------------------------------------------------------------
(* calcola_corrente_cortocircuito *)

\* 1.732 * tensione for the default tensione = 400
RadiceTrePerTensione == FProd(Fraz(1732, 1000), Intero(400))

\* (sn_mva * 1000) / (1.732 * tensione * 0.06), sn_mva = potenza_trasf_kva / 1000
calcola_corrente_cortocircuito(potenza_trasf_kva) ==
    LET sn_mva == FQuoz(Intero(potenza_trasf_kva), Intero(1000))
    IN  FQuoz(FProd(sn_mva, Intero(1000)), FProd(RadiceTrePerTensione, Fraz(6, 100)))

\* P * 1000 / (400 * 1.732 * cos_phi): the current of a power at a power factor
Corrente(potenza, cos_phi) ==
    FQuoz(FProd(potenza, Intero(1000)), FProd(RadiceTrePerTensione, cos_phi))

----------------------------------------------------------------------------
(* seleziona_interruttore *)

\* Adeguato without the factor 1.25 on the required current
AdeguatoSenzaMargine(riga, corrente_richiesta, icc) ==
    /\ FMinUg(corrente_richiesta, Intero(riga.in_nom))
    /\ FMinUg(icc, Intero(riga.icu))

\* (db['in_nom'] >= corrente_richiesta * 1.25) & (db['icu'] >= icc), for one row
Adeguato(riga, corrente_richiesta, icc) ==
    /\ FMinUg(FProd(corrente_richiesta, Fraz(125, 100)), Intero(riga.in_nom))
    /\ FMinUg(icc, Intero(riga.icu))

\* the index labels of candidati
Candidati(corrente_richiesta, icc, db) ==
    {i \in 1..Len(db) : Adeguato(db[i], corrente_richiesta, icc)}

\* IdxMin returning the last label that holds the least price
IdxMinUltimo(db, candidati) ==
    CHOOSE i \in candidati :
        /\ \A j \in candidati : db[i].prezzo <= db[j].prezzo
        /\ \A j \in candidati : db[j].prezzo = db[i].prezzo => j <= i

\* candidati['prezzo'].idxmin(): the first label that holds the least price
IdxMin(db, candidati) ==
    CHOOSE i \in candidati :
        /\ \A j \in candidati : db[i].prezzo <= db[j].prezzo
        /\ \A j \in candidati : db[j].prezzo = db[i].prezzo => i <= j

seleziona_interruttore(corrente_richiesta, icc, db) ==
    LET candidati == Candidati(corrente_richiesta, icc, db)
    IN  IF candidati = {}
        THEN [errore |-> "Nessun interruttore adeguato trovato"]
        ELSE db[IdxMin(db, candidati)]

\* "errore" not in <the dict returned>
Trovato(interruttore) == "errore" \notin DOMAIN interruttore

----------------------------------------------------------------------------
(* verifica_termica_semplificata *)

\* the options of st.sidebar.selectbox "Grado IP"
GradiIP == {"IP31", "IP43", "IP65", "IP66"}

\* the grades chosen in the sidebar in the runs of the application
GradiScelti == {"IP31", "IP66"}

\* CoeffDissip with the default of the dictionary look-up taken for IP65's value
CoeffDissipAltroDefault(ip_grade) ==
    CASE ip_grade = "IP31" -> Intero(1)
      [] ip_grade = "IP43" -> Fraz(9, 10)
      [] OTHER -> Fraz(75, 100)

\* coeff_dissip.get(ip_grade, 0.8)
CoeffDissip(ip_grade) ==
    CASE ip_grade = "IP31" -> Intero(1)
      [] ip_grade = "IP43" -> Fraz(9, 10)
      [] ip_grade = "IP65" -> Fraz(75, 100)
      [] OTHER -> Fraz(8, 10)

\* EsitoTermico with >= in the place of >
EsitoTermicoNonStretto(margine) ==
    IF FMinUg(Intero(20), margine) THEN "OK"
    ELSE IF FMinUg(Intero(0), margine) THEN "CRITICO"
    ELSE "NON OK"

\* "OK" if margine > 20 else "CRITICO" if margine > 0 else "NON OK"
EsitoTermico(margine) ==
    IF FMin(Intero(20), margine) THEN "OK"
    ELSE IF FMin(Intero(0), margine) THEN "CRITICO"
    ELSE "NON OK"

verifica_termica_semplificata(pot_dissipata, volume_m3, ip_grade) ==
    LET pot_dissipabile_max == FProd(FProd(volume_m3, Intero(400)), CoeffDissip(ip_grade))
    IN  IF pot_dissipabile_max.n = 0
        THEN [eccezione |-> "ZeroDivisionError"]
        ELSE LET margine == FProd(FQuoz(FDiff(pot_dissipabile_max, pot_dissipata),
                                        pot_dissipabile_max), Intero(100))
             IN  [eccezione |-> "",
                  pot_dissipata |-> pot_dissipata,
                  pot_dissipabile |-> pot_dissipabile_max,
                  margine_pct |-> margine,
                  esito |-> EsitoTermico(margine)]

----------------------------------------------------------------------------
(* Tab "Carichi": the validation of "Aggiungi Carico" *)

\* NomeMancante without the strip: only the empty string counts as missing
NomeMancanteSenzaStrip(nome) == nome = <<>>

\* not nome or nome.strip() == ""
NomeMancante(nome) == nome = <<>> \/ Strip(nome) = <<>>

\* GiaEsistente comparing the names as they are, without lower()
GiaEsistenteEsatto(cs, nome) ==
    \E i \in 1..Len(cs) : cs[i].nome = nome

\* any(c.nome.lower() == nome.lower() for c in st.session_state.carichi)
GiaEsistente(cs, nome) ==
    \E i \in 1..Len(cs) : Lower(cs[i].nome) = Lower(nome)

\* the if / elif chain: which branch the request takes
Convalida(cs, nome, potenza) ==
    IF NomeMancante(nome) THEN "nome_mancante"
    ELSE IF potenza <= 0 THEN "potenza_non_positiva"
    ELSE IF GiaEsistente(cs, nome) THEN "gia_esistente"
    ELSE "aggiunto"

\* AppendCarico inserting at the head of the list
AppendInTesta(cs, c) == <<c>> \o cs

\* list.append
AppendCarico(cs, c) == Append(cs, c)

\* list.extend
ExtendCarichi(cs, nuovi) == cs \o nuovi

\* list.pop(i), i counted from 0
PopCarico(cs, i) == SubSeq(cs, 1, i) \o SubSeq(cs, i + 2, Len(cs))

\* a run of the script has handled the click and has rendered no tab yet
NessunaVista == [tab |-> "nessuna"]
\* no direct call: the functions are called by the tabs only
NessunIngresso == [funzione |-> "nessuna"]
NessunaUscita == [funzione |-> "nessuna"]

Esito(op, esito, nome, potenza, idx) ==
    [op |-> op, esito |-> esito, nome |-> nome, potenza |-> potenza, idx |-> idx]

\* the run of the script is over: the last tab is rendered, or an exception
\* has ended the run; the page then waits for a click
PaginaResa ==
    /\ vista.tab # "nessuna"
    /\ (vista.tab = "report" \/ vista.stato = "eccezione")

Init ==
    /\ carichi = <<>>
    /\ ultimo = Esito("nessuna", "", <<>>, 0, 0)
    /\ prima = <<>>
    /\ vista = NessunaVista
    /\ ingresso = NessunIngresso
    /\ uscita = NessunaUscita

\* button "Aggiungi Carico"
AggiungiCarico(nome, potenza, cos_phi, regime, priorita, ore_giorno) ==
    LET esito == Convalida(carichi, nome, potenza) IN
    /\ PaginaResa
    /\ esito = "aggiunto" => Len(carichi) < MaxCarichi
    /\ carichi' = IF esito = "aggiunto"
                  THEN AppendCarico(carichi,
                           Carico(Strip(nome), potenza, cos_phi, regime, priorita, ore_giorno))
                  ELSE carichi
    /\ ultimo' = Esito("aggiungi", esito, nome, potenza, Len(carichi))
    /\ prima' = carichi
    /\ vista' = NessunaVista
    /\ UNCHANGED <<ingresso, uscita>>

\* button "Officina Meccanica"
CaricaOfficina ==
    /\ PaginaResa
    /\ Len(carichi) + Len(TemplateOfficinaMeccanica) <= MaxCarichi
    /\ carichi' = ExtendCarichi(carichi, TemplateOfficinaMeccanica)
    /\ ultimo' = Esito("officina", "caricato", <<>>, 0, 0)
    /\ prima' = <<>>
    /\ vista' = NessunaVista
    /\ UNCHANGED <<ingresso, uscita>>

\* button "Caseificio"
CaricaCaseificio ==
    /\ PaginaResa
    /\ Len(carichi) + Len(TemplateCaseificio) <= MaxCarichi
    /\ carichi' = ExtendCarichi(carichi, TemplateCaseificio)
    /\ ultimo' = Esito("caseificio", "caricato", <<>>, 0, 0)
    /\ prima' = <<>>
    /\ vista' = NessunaVista
    /\ UNCHANGED <<ingresso, uscita>>

\* the delete button of row i (key del_i), i counted from 0
CancellaCarico(i) ==
    LET annulla == /\ ultimo.op = "aggiungi"
                   /\ ultimo.esito = "aggiunto"
                   /\ ultimo.idx = i
    IN
    /\ PaginaResa
    /\ i \in 0..(Len(carichi) - 1)
    /\ carichi' = PopCarico(carichi, i)
    /\ ultimo' = Esito("cancella", IF annulla THEN "cancellato_aggiunto" ELSE "cancellato",
                       <<>>, 0, 0)
    /\ prima' = IF annulla THEN prima ELSE <<>>
    /\ vista' = NessunaVista
    /\ UNCHANGED <<ingresso, uscita>>

\* button "Cancella Tutti", shown while the list is not empty
CancellaTutti ==
    /\ PaginaResa
    /\ carichi # <<>>
    /\ carichi' = <<>>
    /\ ultimo' = Esito("cancella_tutti", "cancellato", <<>>, 0, 0)
    /\ prima' = <<>>
    /\ vista' = NessunaVista
    /\ UNCHANGED <<ingresso, uscita>>

----------------------------------------------------------------------------
(* Tabs "Calcoli", "Componenti" and "Report": what each computes when it is
   rendered.  A run of the script renders them in this order after tab
   "Carichi"; an exception ends the run; a click on a button of tab "Carichi"
   starts a new run.  Rounding and formatting for display are left out. *)

\* pot_dim * 1000 / (400 * 1.732 * 0.85)
InGenerale(pot_dim) == Corrente(pot_dim, Fraz(85, 100))

\* the computation the three tabs start with: sizing, transformer, Icc, In
CalcoliBase(cs) ==
    LET dim == calcola_potenza_dimensionamento(cs) IN
    IF dim.eccezione # "" THEN [eccezione |-> dim.eccezione]
    ELSE LET trasf == ScegliTrasformatore(dim.pot_dim) IN
         IF trasf.eccezione # "" THEN [eccezione |-> trasf.eccezione]
         ELSE [eccezione |-> "",
               pot_inst |-> dim.pot_inst,
               fatt_cont |-> dim.fatt_cont,
               pot_dim |-> dim.pot_dim,
               trasf_scelto |-> trasf.kva,
               icc |-> calcola_corrente_cortocircuito(trasf.kva),
               in_generale |-> InGenerale(dim.pot_dim)]

\* the loop over the loads: the rows of the table "partenze", in order
Partenze(cs, icc, db) ==
    LET RECURSIVE da(_)
        da(i) ==
            IF i > Len(cs) THEN <<>>
            ELSE LET corrente_carico == Corrente(Intero(cs[i].potenza_kw), cs[i].cos_phi)
                     int_partenza == seleziona_interruttore(corrente_carico, icc, db)
                 IN  IF Trovato(int_partenza)
                     THEN <<[carico |-> cs[i].nome,
                             interruttore |-> int_partenza.modello,
                             in_nom |-> int_partenza.in_nom,
                             prezzo |-> int_partenza.prezzo]>> \o da(i + 1)
                     ELSE da(i + 1)
    IN  da(1)

RECURSIVE SommaPrezzi(_)
SommaPrezzi(righe) ==
    IF righe = <<>> THEN 0 ELSE righe[1].prezzo + SommaPrezzi(Tail(righe))

\* costo_totale = int_generale.get('prezzo', 0), then += the price of every row
CostoTotale(int_generale, partenze) ==
    (IF Trovato(int_generale) THEN int_generale.prezzo ELSE 0) + SommaPrezzi(partenze)

\* numero_partenze = len(carichi) + 1, the main breaker counted with the loads
NumeroPartenze(n_carichi) == n_carichi + 1

\* Carpenteria with < in the place of <= on the number of departures
CarpenteriaEsclusiva(numero_partenze, in_generale) ==
    IF numero_partenze < 6 /\ FMinUg(in_generale, Intero(400))
    THEN [carpenteria |-> "ArTu M - 1 colonna", costo_carp |-> 8000]
    ELSE IF numero_partenze < 12 /\ FMinUg(in_generale, Intero(800))
    THEN [carpenteria |-> "ArTu K - 1 colonna", costo_carp |-> 12000]
    ELSE [carpenteria |-> "ArTu K - 2 colonne", costo_carp |-> 18000]

\* the if / elif / else chain that picks the enclosure
Carpenteria(numero_partenze, in_generale) ==
    IF numero_partenze <= 6 /\ FMinUg(in_generale, Intero(400))
    THEN [carpenteria |-> "ArTu M - 1 colonna", costo_carp |-> 8000]
    ELSE IF numero_partenze <= 12 /\ FMinUg(in_generale, Intero(800))
    THEN [carpenteria |-> "ArTu K - 1 colonna", costo_carp |-> 12000]
    ELSE [carpenteria |-> "ArTu K - 2 colonne", costo_carp |-> 18000]

Avviso(tab) == [tab |-> tab, stato |-> "avviso"]
Eccezione(tab, nome) == [tab |-> tab, stato |-> "eccezione", eccezione |-> nome]

\* TabCalcoli without the test "if not st.session_state.carichi"
TabCalcoliSenzaGuardia ==
    /\ vista.tab = "nessuna"
    /\ vista' = LET base == CalcoliBase(carichi) IN
                IF base.eccezione # "" THEN Eccezione("calcoli", base.eccezione)
                ELSE [tab |-> "calcoli", stato |-> "ok", base |-> base]
    /\ UNCHANGED <<carichi, ultimo, prima, ingresso, uscita>>

\* TabCalcoli taking the loads out of the list as it sums them
TabCalcoliCheConsuma ==
    /\ vista.tab = "nessuna"
    /\ vista' = IF carichi = <<>> THEN Avviso("calcoli")
                ELSE LET base == CalcoliBase(carichi) IN
                     IF base.eccezione # "" THEN Eccezione("calcoli", base.eccezione)
                     ELSE [tab |-> "calcoli", stato |-> "ok", base |-> base]
    /\ carichi' = IF carichi = <<>> THEN carichi ELSE Tail(carichi)
    /\ UNCHANGED <<ultimo, prima, ingresso, uscita>>

\* with tab2
TabCalcoli ==
    /\ vista.tab = "nessuna"
    /\ vista' = IF carichi = <<>> THEN Avviso("calcoli")
                ELSE LET base == CalcoliBase(carichi) IN
                     IF base.eccezione # "" THEN Eccezione("calcoli", base.eccezione)
                     ELSE [tab |-> "calcoli", stato |-> "ok", base |-> base]
    /\ UNCHANGED <<carichi, ultimo, prima, ingresso, uscita>>

\* with tab3
TabComponenti ==
    /\ vista.tab = "calcoli" /\ vista.stato # "eccezione"
    /\ vista' = IF carichi = <<>> THEN Avviso("componenti")
                ELSE LET base == CalcoliBase(carichi) IN
                     IF base.eccezione # "" THEN Eccezione("componenti", base.eccezione)
                     ELSE LET int_generale == seleziona_interruttore(
                                  base.in_generale, base.icc, load_interruttori_db)
                              partenze == Partenze(carichi, base.icc, load_interruttori_db)
                          IN  [tab |-> "componenti", stato |-> "ok", base |-> base,
                               int_generale |-> int_generale,
                               partenze |-> partenze,
                               costo_totale |-> CostoTotale(int_generale, partenze),
                               carpenteria |-> Carpenteria(NumeroPartenze(Len(carichi)),
                                                           base.in_generale)]
    /\ UNCHANGED <<carichi, ultimo, prima, ingresso, uscita>>

\* with tab4, ip_grade being the grade chosen in the sidebar
TabReport(ip_grade) ==
    /\ vista.tab = "componenti" /\ vista.stato # "eccezione"
    /\ vista' = IF carichi = <<>> THEN Avviso("report")
                ELSE LET base == CalcoliBase(carichi) IN
                     IF base.eccezione # "" THEN Eccezione("report", base.eccezione)
                     ELSE LET volume_quadro == Fraz(8, 10)
                              pot_dissipata_tot == Intero(Len(carichi) * 15 + 80)
                              verifica_term == verifica_termica_semplificata(
                                  pot_dissipata_tot, volume_quadro, ip_grade)
                          IN  IF verifica_term.eccezione # ""
                              THEN Eccezione("report", verifica_term.eccezione)
                              ELSE [tab |-> "report", stato |-> "ok", base |-> base,
                                    ip_grade |-> ip_grade,
                                    verifica_term |-> verifica_term]
    /\ UNCHANGED <<carichi, ultimo, prima, ingresso, uscita>>

Next ==
    \/ \E nome \in NomiModulo, potenza \in PotenzeModulo, regime \in RegimiModulo :
           AggiungiCarico(nome, potenza, CosPhiIniziale, regime, PrioritaIniziale,
                          OreIniziali(regime))
    \/ CaricaOfficina
    \/ CaricaCaseificio
    \/ \E i \in 0..(MaxCarichi - 1) : CancellaCarico(i)
    \/ CancellaTutti
    \/ TabCalcoli
    \/ TabComponenti
    \/ \E ip_grade \in GradiScelti : TabReport(ip_grade)

Spec == Init /\ [][Next]_vars

----------------------------------------------------------------------------
(* Properties of the load collection (specification Spec) *)

\* two names are equal when compared case-insensitively
UgualiSenzaCaso(a, b) == Lower(a) = Lower(b)

\* a name that is empty or made of white space only
SoloSpazi(nome) == \A i \in 1..Len(nome) : nome[i] = " "

\* C1: every load of the collection has a non-empty name, and no two loads of
\* the collection have names that are equal when compared case-insensitively.
C1_NomiUnici ==
    /\ \A i \in 1..Len(carichi) : carichi[i].nome # <<>>
    /\ \A i, j \in 1..Len(carichi) :
           i # j => ~UgualiSenzaCaso(carichi[i].nome, carichi[j].nome)

\* C2: an "Aggiungi Carico" request whose name equals, ignoring case, the name
\* of a load of the list is rejected as already existing, and the list after
\* it is the list before it.
C2_DuplicatoRifiutato ==
    (/\ ultimo.op = "aggiungi"
     /\ \E i \in 1..Len(prima) : UgualiSenzaCaso(prima[i].nome, ultimo.nome))
    => (ultimo.esito = "gia_esistente" /\ carichi = prima)

\* a request was rejected whose name differs from the existing one in case only
C2_Witness ==
    /\ ultimo.op = "aggiungi"
    /\ ultimo.esito = "gia_esistente"
    /\ \E i \in 1..Len(prima) :
           /\ UgualiSenzaCaso(prima[i].nome, ultimo.nome)
           /\ prima[i].nome # ultimo.nome

\* C3: an "Aggiungi Carico" request with an empty or white-space-only name, or
\* with a power that is not greater than 0, is rejected and leaves the list as
\* it was.  (The widget never holds a power below 0.5: for that case the
\* formula states that the validation would reject it in every state.)
C3_RichiestaNonValida ==
    /\ (ultimo.op = "aggiungi" /\ (SoloSpazi(ultimo.nome) \/ ultimo.potenza <= 0))
       => (/\ ultimo.esito \in {"nome_mancante", "potenza_non_positiva"}
           /\ carichi = prima)
    /\ \A nome \in NomiModulo : Convalida(carichi, nome, 0) # "aggiunto"

\* a white-space-only name was rejected while the list held loads
C3_Witness ==
    /\ ultimo.op = "aggiungi"
    /\ ultimo.esito = "nome_mancante"
    /\ ultimo.nome # <<>>
    /\ carichi # <<>>

\* C4: a load is added and the load at the position where it was inserted is
\* removed next: the list is then equal to the list before the add.
C4_AggiungiPoiCancella ==
    ultimo.esito = "cancellato_aggiunto" => carichi = prima

\* the round trip was made on a list that held loads
C4_Witness ==
    /\ ultimo.esito = "cancellato_aggiunto"
    /\ carichi # <<>>

\* the design power of the list exceeds the largest standard size
SuperaMassimo(cs) ==
    LET dim == calcola_potenza_dimensionamento(cs)
    IN  dim.eccezione = "" /\ FMin(Intero(2500), dim.pot_dim)

\* C8: when the design power exceeds 2500 kVA, the tab that looks the
\* transformer up does not end with an exception (it reports that no standard
\* size fits) and yields no transformer.
C8_NessunaEccezione ==
    (vista.tab \in {"calcoli", "componenti", "report"} /\ SuperaMassimo(carichi))
    => vista.stato # "eccezione"

\* C11: in tab "Componenti" the total cost is the price of the main breaker
\* plus the prices of the branch breakers selected, and every load of the list
\* is surfaced: it has a row in the branch table or is reported as unresolved.
\* (The tab renders the branch table only; it reports no list of unresolved
\* branches, so a surfaced load is a load with a row in the table.)
C11_PartenzeTutteRiportate ==
    (vista.tab = "componenti" /\ vista.stato = "ok")
    => (/\ vista.costo_totale =
               (IF "errore" \in DOMAIN vista.int_generale
                THEN 0 ELSE vista.int_generale.prezzo)
               + SommaPrezzi(vista.partenze)
        /\ \A i \in 1..Len(carichi) :
               \E k \in 1..Len(vista.partenze) :
                   vista.partenze[k].carico = carichi[i].nome)

----------------------------------------------------------------------------
(* Direct calls of the engineering functions, with arguments drawn from
   bounded sets *)

\* the options of st.selectbox "Regime"
Regimi == {"continuo", "intermittente"}

\* all sequences of at most n elements of S
SeqFino(S, n) == UNION {[1..k -> S] : k \in 0..n}

NessunaChiamata ==
    /\ carichi = <<>>
    /\ ultimo = Esito("nessuna", "", <<>>, 0, 0)
    /\ prima = <<>>
    /\ vista = NessunaVista
    /\ uscita = NessunaUscita

Chiamata(funzione, risultato) ==
    /\ ingresso.funzione = funzione
    /\ uscita = NessunaUscita
    /\ uscita' = [funzione |-> funzione, ris |-> risultato]
    /\ UNCHANGED <<carichi, ultimo, prima, vista, ingresso>>

(* calcola_potenza_dimensionamento *)

CarichiProva ==
    {Carico(<<"x">>, p, CosPhiIniziale, r, "normale", h) :
        p \in {0, 15, 1000}, r \in Regimi, h \in {1, 24}}

InitDim ==
    /\ NessunaChiamata
    /\ ingresso \in {[funzione |-> "calcola_potenza_dimensionamento", carichi |-> cs] :
                        cs \in SeqFino(CarichiProva, MaxCarichiProva)}

ChiamaDimensionamento ==
    Chiamata("calcola_potenza_dimensionamento",
             calcola_potenza_dimensionamento(ingresso.carichi))

NextDim == ChiamaDimensionamento

SpecDim == InitDim /\ [][NextDim]_vars

RECURSIVE SommaKw(_)
\* the sum of the loads' potenza_kw
SommaKw(cs) == IF cs = <<>> THEN 0 ELSE cs[1].potenza_kw + SommaKw(Tail(cs))

DimChiamata == uscita.funzione = "calcola_potenza_dimensionamento"

\* C5: for a non-empty list of loads, each with potenza_kw > 0 and ore_giorno
\* in (0, 24], the function returns a factor f with 0 < f <= 0.9, an installed
\* power equal to the sum of the loads' potenza_kw, and a design power equal to
\* installed power x f x 1.15.
C5_Dimensionamento ==
    (/\ DimChiamata
     /\ ingresso.carichi # <<>>
     /\ \A i \in 1..Len(ingresso.carichi) :
            /\ ingresso.carichi[i].potenza_kw > 0
            /\ ingresso.carichi[i].ore_giorno > 0
            /\ ingresso.carichi[i].ore_giorno <= 24)
    => (/\ uscita.ris.eccezione = ""
        /\ FMin(Intero(0), uscita.ris.fatt_cont)
        /\ FMinUg(uscita.ris.fatt_cont, Fraz(9, 10))
        /\ uscita.ris.pot_inst = Intero(SommaKw(ingresso.carichi))
        /\ uscita.ris.pot_dim =
               FProd(FProd(uscita.ris.pot_inst, uscita.ris.fatt_cont), Fraz(115, 100)))

\* a continuous and an intermittent load, and a factor below the cap
C5_Witness ==
    /\ DimChiamata
    /\ Len(ingresso.carichi) = 2
    /\ \A i \in 1..2 : ingresso.carichi[i].potenza_kw > 0
    /\ ingresso.carichi[1].regime # ingresso.carichi[2].regime
    /\ uscita.ris.eccezione = ""
    /\ FMin(uscita.ris.fatt_cont, Fraz(9, 10))

\* C6: called with an empty list, or with a list whose installed power is 0,
\* the function fails with the input error EmptyLoadSet, and with no other
\* failure.
C6_InsiemeVuoto ==
    (DimChiamata /\ SommaKw(ingresso.carichi) = 0)
    => uscita.ris.eccezione = "EmptyLoadSet"

(* The transformer *)

InitTrasf ==
    /\ NessunaChiamata
    /\ ingresso \in {[funzione |-> "scegli_trasformatore", pot_dim |-> Fraz(m, 2)] :
                        m \in 0..MaxMezziKw}

ChiamaTrasformatore ==
    Chiamata("scegli_trasformatore", ScegliTrasformatore(ingresso.pot_dim))

NextTrasf == ChiamaTrasformatore

SpecTrasf == InitTrasf /\ [][NextTrasf]_vars

\* the standard list as the claim gives it
TaglieNormalizzate ==
    {160, 250, 315, 400, 500, 630, 800, 1000, 1250, 1600, 2000, 2500}

\* the design powers at, just below and just above a standard size
PotenzeDiConfine ==
    {Fraz(2 * t + e, 2) : t \in TaglieNormalizzate, e \in {-1, 0, 1}}

TrasfChiamata == uscita.funzione = "scegli_trasformatore"

\* C7: for a design power that does not exceed 2500, the transformer chosen is
\* the smallest element of the standard list that is greater than or equal to
\* the design power; and no larger design power (up to 2500) yields a smaller
\* transformer.
C7_Trasformatore ==
    (TrasfChiamata /\ FMinUg(ingresso.pot_dim, Intero(2500)))
    => (/\ uscita.ris.eccezione = ""
        /\ uscita.ris.kva \in TaglieNormalizzate
        /\ FMinUg(ingresso.pot_dim, Intero(uscita.ris.kva))
        /\ \A t \in TaglieNormalizzate :
               FMinUg(ingresso.pot_dim, Intero(t)) => uscita.ris.kva <= t
        /\ \A q \in PotenzeDiConfine :
               (FMinUg(ingresso.pot_dim, q) /\ FMinUg(q, Intero(2500)))
               => (/\ ScegliTrasformatore(q).eccezione = ""
                   /\ uscita.ris.kva <= ScegliTrasformatore(q).kva))

\* a design power equal to a standard size gets that size
C7_Witness ==
    /\ TrasfChiamata
    /\ ingresso.pot_dim = Intero(315)
    /\ uscita.ris.eccezione = ""
    /\ uscita.ris.kva = 315

(* seleziona_interruttore *)

RigheProva ==
    {[serie |-> "S", modello |-> "M", in_nom |-> a, icu |-> b, prezzo |-> z] :
        a \in {100, 125}, b \in {25, 35}, z \in {500, 700}}

InitSel ==
    /\ NessunaChiamata
    /\ ingresso \in {[funzione |-> "seleziona_interruttore",
                      corrente_richiesta |-> c, icc |-> k, db |-> db] :
                        c \in {0, 80, 100, 101}, k \in {25, 26, 36},
                        db \in SeqFino(RigheProva, MaxRighe)}

ChiamaSelezione ==
    Chiamata("seleziona_interruttore",
             seleziona_interruttore(Intero(ingresso.corrente_richiesta),
                                    Intero(ingresso.icc), ingresso.db))

NextSel == ChiamaSelezione

SpecSel == InitSel /\ [][NextSel]_vars

SelChiamata == uscita.funzione = "seleziona_interruttore"

\* the rows of the catalogue with in_nom >= required current x 1.25 and
\* icu >= fault current
Conformi ==
    {i \in 1..Len(ingresso.db) :
        /\ ingresso.db[i].in_nom * 100 >= ingresso.corrente_richiesta * 125
        /\ ingresso.db[i].icu >= ingresso.icc}

\* C9: the function returns the not-found error exactly when no row of the
\* catalogue satisfies both conditions, and otherwise a row of the catalogue
\* that satisfies both.
C9_Selezione ==
    SelChiamata
    => IF Conformi = {}
       THEN "errore" \in DOMAIN uscita.ris
       ELSE /\ "errore" \notin DOMAIN uscita.ris
            /\ \E i \in Conformi : ingresso.db[i] = uscita.ris

\* a row that meets both limits exactly was returned, from a catalogue that
\* also holds a row that does not conform
C9_Witness ==
    /\ SelChiamata
    /\ "errore" \notin DOMAIN uscita.ris
    /\ uscita.ris.in_nom * 100 = ingresso.corrente_richiesta * 125
    /\ uscita.ris.icu = ingresso.icc
    /\ \E i \in 1..Len(ingresso.db) : i \notin Conformi

\* the first row, in catalogue order, among the conforming rows of least price
PrimoMenoCaro ==
    CHOOSE i \in Conformi :
        \A j \in Conformi :
            \/ ingresso.db[i].prezzo < ingresso.db[j].prezzo
            \/ (ingresso.db[i].prezzo = ingresso.db[j].prezzo /\ i <= j)

\* C10: when the function returns a row, the price of the row is the least
\* price of the conforming rows, and the row is the first of the conforming
\* rows of that price in catalogue order.
C10_PrezzoMinimo ==
    (SelChiamata /\ "errore" \notin DOMAIN uscita.ris)
    => (/\ \A j \in Conformi : uscita.ris.prezzo <= ingresso.db[j].prezzo
        /\ uscita.ris = ingresso.db[PrimoMenoCaro])

\* two different conforming rows share the least price, and the earlier one
\* was returned
C10_Witness ==
    /\ SelChiamata
    /\ "errore" \notin DOMAIN uscita.ris
    /\ \E i, j \in Conformi :
           /\ i < j
           /\ ingresso.db[i] # ingresso.db[j]
           /\ ingresso.db[i].prezzo = ingresso.db[j].prezzo
           /\ \A k \in Conformi : ingresso.db[i].prezzo <= ingresso.db[k].prezzo
           /\ \A k \in Conformi : ingresso.db[k].prezzo = ingresso.db[i].prezzo => i <= k
           /\ uscita.ris = ingresso.db[i]

(* verifica_termica_semplificata *)

\* enclosure volumes in m3: the one tab "Report" passes, 1, and two that are not positive
VolumiProva == {Fraz(8, 10), Intero(1), Intero(0), Intero(-1)}

\* the grades the application offers, and one it does not
GradiProva == GradiIP \cup {"IP54"}

InitTerm ==
    /\ NessunaChiamata
    /\ ingresso \in {[funzione |-> "verifica_termica_semplificata",
                      pot_dissipata |-> w, volume_m3 |-> v, ip_grade |-> g] :
                        w \in 0..MaxDissipata, v \in VolumiProva, g \in GradiProva}

ChiamaVerificaTermica ==
    Chiamata("verifica_termica_semplificata",
             verifica_termica_semplificata(Intero(ingresso.pot_dissipata),
                                           ingresso.volume_m3, ingresso.ip_grade))

NextTerm == ChiamaVerificaTermica

SpecTerm == InitTerm /\ [][NextTerm]_vars

TermChiamata == uscita.funzione = "verifica_termica_semplificata"

\* C12: the margin returned is (max_dissipable - dissipated) / max_dissipable
\* x 100, and the verdict is OK exactly when margin > 20, CRITICO exactly when
\* 0 < margin <= 20, NON OK exactly when margin <= 0.
C12_EsitoTermico ==
    (TermChiamata /\ uscita.ris.eccezione = "")
    => LET margine == uscita.ris.margine_pct
           massima == uscita.ris.pot_dissipabile
       IN  /\ margine = FProd(FQuoz(FDiff(massima, Intero(ingresso.pot_dissipata)),
                                    massima), Intero(100))
           /\ (uscita.ris.esito = "OK") <=> (margine.n > 20 * margine.d)
           /\ (uscita.ris.esito = "CRITICO")
                  <=> (margine.n > 0 /\ margine.n <= 20 * margine.d)
           /\ (uscita.ris.esito = "NON OK") <=> (margine.n <= 0)

\* a margin of exactly 20 got the verdict CRITICO
C12_Witness ==
    /\ TermChiamata
    /\ uscita.ris.eccezione = ""
    /\ uscita.ris.margine_pct = Intero(20)
    /\ uscita.ris.esito = "CRITICO"

\* C13: called with a volume that is zero or negative, the function fails with
\* InvalidVolume; it returns no verdict.
C13_VolumeNonValido ==
    (TermChiamata /\ ingresso.volume_m3.n <= 0)
    => uscita.ris.eccezione = "InvalidVolume"

\* the coefficient of each grade, as the claim gives it
CoefficienteAtteso(ip_grade) ==
    CASE ip_grade = "IP31" -> Fraz(10, 10)
      [] ip_grade = "IP43" -> Fraz(9, 10)
      [] ip_grade = "IP65" -> Fraz(75, 100)
      [] OTHER -> Fraz(8, 10)

\* C14: the maximum dissipable power returned is volume x 400 x k, k being 1.0
\* for IP31, 0.9 for IP43, 0.75 for IP65 and 0.8 for every other grade, IP66
\* included.
C14_PotenzaDissipabile ==
    (TermChiamata /\ uscita.ris.eccezione = "")
    => uscita.ris.pot_dissipabile =
           FProd(FProd(ingresso.volume_m3, Intero(400)),
                 CoefficienteAtteso(ingresso.ip_grade))

\* IP66, a grade of the sidebar, with the volume of tab "Report": 0.8 x 400 x 0.8
C14_Witness ==
    /\ TermChiamata
    /\ ingresso.ip_grade = "IP66"
    /\ "IP66" \in GradiIP
    /\ ingresso.volume_m3 = Fraz(8, 10)
    /\ uscita.ris.eccezione = ""
    /\ uscita.ris.pot_dissipabile = Intero(256)

----------------------------------------------------------------------------
(* calcola_potenza_dimensionamento on continuous loads (specification SpecDim) *)

\* C16: for every non-empty list of loads that all have regime continuo and
\* potenza_kw > 0, whatever their ore_giorno, the function returns the factor
\* 0.9 exactly.
C16_TuttiContinui ==
    (/\ DimChiamata
     /\ ingresso.carichi # <<>>
     /\ \A i \in 1..Len(ingresso.carichi) :
            /\ ingresso.carichi[i].regime = "continuo"
            /\ ingresso.carichi[i].potenza_kw > 0)
    => (/\ uscita.ris.eccezione = ""
        /\ uscita.ris.fatt_cont = Fraz(9, 10))

\* two continuous loads, one of them used one hour a day
C16_Witness ==
    /\ DimChiamata
    /\ Len(ingresso.carichi) = 2
    /\ \A i \in 1..2 : /\ ingresso.carichi[i].regime = "continuo"
                       /\ ingresso.carichi[i].potenza_kw > 0
    /\ ingresso.carichi[1].ore_giorno = 1
    /\ ingresso.carichi[2].ore_giorno = 24
    /\ uscita.ris.eccezione = ""
    /\ uscita.ris.fatt_cont = Fraz(9, 10)

----------------------------------------------------------------------------
(* The tabs and the load collection (specification Spec) *)

\* C15: a step that renders tab "Calcoli", "Componenti" or "Report" leaves
\* the load collection as it was; only the buttons of tab "Carichi" change it.
C15_TabNonModificano ==
    [][vista'.tab # "nessuna" => carichi' = carichi]_vars

\* the three tabs were rendered on the loads of a template, which are all still there
C15_Witness ==
    /\ vista.tab = "report"
    /\ vista.stato = "ok"
    /\ ultimo.op = "caseificio"
    /\ carichi = TemplateCaseificio

\* C17: a tab calls the sizing function exactly when the load collection is
\* not empty (it shows its warning otherwise), and then the installed power is
\* strictly positive and no division by zero happens.
C17_DimensionamentoProtetto ==
    vista.tab # "nessuna"
    => (/\ (vista.stato = "avviso") <=> (carichi = <<>>)
        /\ vista.stato # "avviso"
               => (/\ SommaKw(carichi) > 0
                   /\ vista.stato = "eccezione"
                          => vista.eccezione # "ZeroDivisionError"
                   /\ vista.stato = "ok" => vista.base.pot_inst.n > 0))

\* tab "Calcoli" computed the sizing of a list that a removal left non-empty
C17_Witness ==
    /\ vista.tab = "calcoli"
    /\ vista.stato = "ok"
    /\ ultimo.op = "cancella"
    /\ carichi # <<>>
    /\ vista.base.pot_inst = Intero(SommaKw(carichi))

\* C18: every load of the collection has potenza_kw > 0, cos_phi in (0, 1],
\* ore_giorno in (0, 24] and regime continuo or intermittente.
C18_CarichiValidi ==
    \A i \in 1..Len(carichi) :
        /\ carichi[i].potenza_kw > 0
        /\ carichi[i].cos_phi.n > 0
        /\ carichi[i].cos_phi.n <= carichi[i].cos_phi.d
        /\ carichi[i].ore_giorno > 0
        /\ carichi[i].ore_giorno <= 24
        /\ carichi[i].regime \in Regimi

\* a load of the form was added after the loads of a template
C18_Witness ==
    /\ ultimo.op = "aggiungi"
    /\ ultimo.esito = "aggiunto"
    /\ Len(carichi) >= 2
    /\ carichi[Len(carichi)].nome = <<"a">>
    /\ \E i \in 1..Len(carichi) : carichi[i].regime = "intermittente"

----------------------------------------------------------------------------
(* The enclosure: the if / elif / else chain of tab "Componenti" *)

InitCarp ==
    /\ NessunaChiamata
    /\ ingresso \in {[funzione |-> "carpenteria", n_carichi |-> k,
                      in_generale |-> Fraz(m, 2)] :
                        k \in 0..MaxCarichiCarp, m \in 0..MaxMezziAmpere}

ChiamaCarpenteria ==
    Chiamata("carpenteria",
             Carpenteria(NumeroPartenze(ingresso.n_carichi), ingresso.in_generale))

NextCarp == ChiamaCarpenteria

SpecCarp == InitCarp /\ [][NextCarp]_vars

CarpChiamata == uscita.funzione = "carpenteria"

\* C19: with n = number of loads + 1 and I = main current, the enclosure is
\* "ArTu M - 1 colonna" at 8000 exactly when n <= 6 and I <= 400; otherwise
\* "ArTu K - 1 colonna" at 12000 exactly when n <= 12 and I <= 800; otherwise
\* "ArTu K - 2 colonne" at 18000.
C19_Carpenteria ==
    CarpChiamata
    => LET n == ingresso.n_carichi + 1
           corrente == ingresso.in_generale
           piccola == n <= 6 /\ corrente.n <= 400 * corrente.d
           media == ~piccola /\ n <= 12 /\ corrente.n <= 800 * corrente.d
       IN  /\ piccola <=> uscita.ris = [carpenteria |-> "ArTu M - 1 colonna",
                                        costo_carp |-> 8000]
           /\ media <=> uscita.ris = [carpenteria |-> "ArTu K - 1 colonna",
                                      costo_carp |-> 12000]
           /\ (~piccola /\ ~media)
                  <=> uscita.ris = [carpenteria |-> "ArTu K - 2 colonne",
                                    costo_carp |-> 18000]

\* five loads and the main breaker at exactly 400 A: both bounds met with equality
C19_Witness ==
    /\ CarpChiamata
    /\ ingresso.n_carichi = 5
    /\ ingresso.in_generale = Intero(400)
    /\ uscita.ris.carpenteria = "ArTu M - 1 colonna"
    /\ uscita.ris.costo_carp = 8000

====
